---- MODULE Spec2Model ----
(***************************************************************************)
(* A model of FingerprintService (src/fingerprint.js): attribute           *)
(* collection from the host, canonicalization, the two digest paths        *)
(* (crypto.subtle and the simpleHash fallback) and the asynchronous calls  *)
(* generateHash and getFingerprint.                                        *)
(*                                                                         *)
(* A JavaScript string is modelled as what it is: a sequence of UTF-16     *)
(* code units (naturals below 65536).  32-bit integers are kept as two     *)
(* 16-bit limbs so that every wrap-around of the source happens in the     *)
(* model too.                                                              *)
(***************************************************************************)
EXTENDS Integers, Sequences, FiniteSets

VARIABLES
    input,    \* argument of the pure function under check
    output,   \* its result: [done, val]
    host,     \* host environment: navigator, screen, window, Intl
    calls,    \* the asynchronous calls, by call id
    console,  \* console.warn's sink: the sequence of warnings emitted
    heap      \* number of objects allocated so far (object identity)

vars == <<input, output, host, calls, console, heap>>

----------------------------------------------------------------------------
(* Strings *)

\* Printable ASCII, code units 32..126, in order (the grave accent, 96, is
\* not writable in a TLA+ string and is left out as an empty entry).
Ascii ==
    <<" ", "!", "\"", "#", "$", "%", "&", "'", "(", ")", "*", "+", ",", "-",
      ".", "/", "0", "1", "2", "3", "4", "5", "6", "7", "8", "9", ":", ";",
      "<", "=", ">", "?", "@", "A", "B", "C", "D", "E", "F", "G", "H", "I",
      "J", "K", "L", "M", "N", "O", "P", "Q", "R", "S", "T", "U", "V", "W",
      "X", "Y", "Z", "[", "\\", "]", "^", "_", "", "a", "b", "c", "d", "e",
      "f", "g", "h", "i", "j", "k", "l", "m", "n", "o", "p", "q", "r", "s",
      "t", "u", "v", "w", "x", "y", "z", "{", "|", "}", "~">>

\* The code unit of a printable ASCII character.
Code(ch) == 31 + (CHOOSE i \in 1..Len(Ascii) : Ascii[i] = ch)

\* A string literal, written as the tuple of its characters.
Str(t) == [i \in 1..Len(t) |-> Code(t[i])]

RECURSIVE Concat(_)
\* The concatenation of a sequence of strings.
Concat(ss) ==
    IF Len(ss) = 0 THEN <<>>
    ELSE IF Len(ss) = 1 THEN ss[1]
    ELSE LET m == Len(ss) \div 2
         IN  Concat(SubSeq(ss, 1, m)) \o Concat(SubSeq(ss, m + 1, Len(ss)))

\* String.prototype.padStart(n, fill) for a one-unit fill string: s is
\* returned unchanged when it is already n units long or longer.
PadStart(s, n, fill) ==
    IF Len(s) >= n THEN s ELSE [i \in 1..(n - Len(s)) |-> fill] \o s

HexDigits == Str(<<"0", "1", "2", "3", "4", "5", "6", "7", "8", "9",
                   "a", "b", "c", "d", "e", "f">>)

IsHexString(s) == \A i \in 1..Len(s) : \E d \in 1..16 : s[i] = HexDigits[d]

----------------------------------------------------------------------------
(* 32-bit integers: hi and lo are the upper and lower 16 bits of the       *)
(* two's complement pattern.                                               *)

Limb == 65536

U32(hi, lo) == [hi |-> hi, lo |-> lo]

\* The pattern of a natural below 2^31.
FromNat(n) == U32(n \div Limb, n % Limb)

Add32(a, b) ==
    LET lo == a.lo + b.lo
    IN  U32((a.hi + b.hi + lo \div Limb) % Limb, lo % Limb)

Neg32(a) == Add32(U32(Limb - 1 - a.hi, Limb - 1 - a.lo), U32(0, 1))

Sub32(a, b) == Add32(a, Neg32(b))

\* a << k for 0 <= k < 16.
Shl32(a, k) ==
    LET lo == a.lo * (2 ^ k)
    IN  U32((a.hi * (2 ^ k) + lo \div Limb) % Limb, lo % Limb)

IsNegative32(a) == a.hi >= Limb \div 2

\* The Number an int32 pattern denotes, as sign and magnitude; the
\* magnitude of -2^31 is 2^31, which is hi = 32768, lo = 0.
ToNumber(a) ==
    IF IsNegative32(a)
    THEN [neg |-> TRUE, mag |-> Neg32(a)]
    ELSE [neg |-> FALSE, mag |-> a]

MathAbs_Identity(x) == x

\* Math.abs
MathAbs(x) == [x EXCEPT !.neg = FALSE]

RECURSIVE HexOfNat(_)
\* The hex digits of a natural, without leading zeros ("" for 0).
HexOfNat(n) ==
    IF n = 0 THEN <<>> ELSE HexOfNat(n \div 16) \o <<HexDigits[(n % 16) + 1]>>

\* Number.prototype.toString(16) of an integer of magnitude up to 2^32 - 1:
\* a "-" for a negative number, then the digits without leading zeros.
ToString16(x) ==
    LET hi  == HexOfNat(x.mag.hi)
        lo  == HexOfNat(x.mag.lo)
        mag == IF x.mag.hi = 0
               THEN (IF x.mag.lo = 0 THEN Str(<<"0">>) ELSE lo)
               ELSE hi \o PadStart(lo, 4, Code("0"))
    IN  (IF x.neg THEN Str(<<"-">>) ELSE <<>>) \o mag

----------------------------------------------------------------------------
(* simpleHash.  Each pass computes in doubles and then wraps with          *)
(* hash & hash; every intermediate value is an integer far below 2^53, so  *)
(* the wrapped result is the sum taken modulo 2^32, which is what the      *)
(* limb arithmetic computes.  Positions i are 0-based as in the source.    *)
(* The loop bodies are functions, applied to the running hash.             *)

Int32 == [hi : 0..(Limb - 1), lo : 0..(Limb - 1)]

\* hash = ((hash << 5) - hash) + char; hash = hash & hash
Mix1[hash \in Int32, char \in Nat] ==
    Add32(Sub32(Shl32(hash, 5), hash), FromNat(char))

\* hash2 = ((hash2 << 7) - hash2) + char + i; hash2 = hash2 & hash2
Mix2[hash2 \in Int32, char \in Nat, i \in Nat] ==
    Add32(Add32(Sub32(Shl32(hash2, 7), hash2), FromNat(char)), FromNat(i))

\* hash3 = ((hash3 << 3) - hash3) + char * (i + 1); hash3 = hash3 & hash3
Mix3[hash3 \in Int32, char \in Nat, i \in Nat] ==
    Add32(Sub32(Shl32(hash3, 3), hash3), FromNat(char * (i + 1)))

\* hash4 = ((hash4 << 5) + hash4) + str.charCodeAt(i); hash4 = hash4 & hash4
Mix4[hash4 \in Int32, char \in Nat] ==
    Add32(Add32(Shl32(hash4, 5), hash4), FromNat(char))

\* for (let i = 0; i < str.length; i++) ...
Pass1(str) ==
    LET loop[i \in 0..Len(str), hash \in Int32] ==
            IF i >= Len(str) THEN hash ELSE loop[i + 1, Mix1[hash, str[i + 1]]]
    IN  loop[0, FromNat(0)]

Pass2(str) ==
    LET loop[i \in 0..Len(str), hash2 \in Int32] ==
            IF i >= Len(str) THEN hash2 ELSE loop[i + 1, Mix2[hash2, str[i + 1], i]]
    IN  loop[0, FromNat(0)]

\* for (let i = str.length - 1; i >= 0; i--) ...
Pass3(str) ==
    LET loop[i \in -1..(Len(str) - 1), hash3 \in Int32] ==
            IF i < 0 THEN hash3 ELSE loop[i - 1, Mix3[hash3, str[i + 1], i]]
    IN  loop[Len(str) - 1, FromNat(0)]

Pass4(str) ==
    LET loop[i \in 0..Len(str), hash4 \in Int32] ==
            IF i >= Len(str) THEN hash4 ELSE loop[i + 1, Mix4[hash4, str[i + 1]]]
    IN  loop[0, FromNat(5381)]

\* Math.abs(h).toString(16).padStart(8, '0')
HashPart(h) == PadStart(ToString16(MathAbs(ToNumber(h))), 8, Code("0"))

simpleHash(str) ==
    LET hash1    == HashPart(Pass1(str))
        hash2Str == HashPart(Pass2(str))
        hash3Str == HashPart(Pass3(str))
        hash4Str == HashPart(Pass4(str))
    IN  hash1 \o hash2Str \o hash3Str \o hash4Str

----------------------------------------------------------------------------
(* JavaScript values.  A number is kept in quarters (q = 4 * value), which *)
(* covers the integers and the usual fractional pixel ratios exactly.      *)

Undefined    == [t |-> "undefined", s |-> <<>>, q |-> 0]
Null         == [t |-> "null", s |-> <<>>, q |-> 0]
SymbolV      == [t |-> "symbol", s |-> <<>>, q |-> 0]
StringV(s)   == [t |-> "string", s |-> s, q |-> 0]
NumberV(q)   == [t |-> "number", s |-> <<>>, q |-> q]
IntV(n)      == NumberV(4 * n)

\* ToBoolean, as || applies it.
Truthy(v) ==
    CASE v.t = "string" -> v.s # <<>>
      [] v.t = "number" -> v.q # 0
      [] v.t = "symbol" -> TRUE
      [] OTHER -> FALSE

\* a === b for these values.
StrictEquals(a, b) == a = b

RECURSIVE Decimal(_)
\* The decimal digits of a natural, "0" for 0.
Decimal(n) ==
    IF n < 10 THEN <<Code("0") + n>>
    ELSE Decimal(n \div 10) \o <<Code("0") + (n % 10)>>

NumberToString_Truncated(q) ==
    LET a == IF q < 0 THEN 0 - q ELSE q
    IN  (IF q < 0 THEN Str(<<"-">>) ELSE <<>>) \o Decimal(a \div 4)

\* Number::toString of q / 4: an optional "-", the integer part, and the
\* fraction's digits when there is one.
NumberToString(q) ==
    LET a    == IF q < 0 THEN 0 - q ELSE q
        frac == CASE a % 4 = 0 -> <<>>
                  [] a % 4 = 1 -> Str(<<".", "2", "5">>)
                  [] a % 4 = 2 -> Str(<<".", "5">>)
                  [] a % 4 = 3 -> Str(<<".", "7", "5">>)
    IN  (IF q < 0 THEN Str(<<"-">>) ELSE <<>>) \o Decimal(a \div 4) \o frac

\* What Array.prototype.join makes of one element: undefined and null give
\* the empty string, a symbol cannot be converted (TypeError).
JoinElement(v) ==
    CASE v.t = "string" -> [threw |-> FALSE, s |-> v.s]
      [] v.t = "number" -> [threw |-> FALSE, s |-> NumberToString(v.q)]
      [] v.t = "symbol" -> [threw |-> TRUE, s |-> <<>>]
      [] OTHER -> [threw |-> FALSE, s |-> <<>>]

RECURSIVE JoinFrom(_, _, _)
JoinFrom(elems, sep, k) ==
    IF k > Len(elems) THEN <<>>
    ELSE (IF k > 1 THEN sep ELSE <<>>) \o JoinElement(elems[k]).s
         \o JoinFrom(elems, sep, k + 1)

\* Array.prototype.join
ArrayJoin(elems, sep) ==
    [threw |-> \E k \in 1..Len(elems) : JoinElement(elems[k]).threw,
     s     |-> JoinFrom(elems, sep, 1)]

----------------------------------------------------------------------------
(* The secure digest path *)

\* The UTF-8 bytes of the code point cp.
Utf8OfCodePoint(cp) ==
    CASE cp < 128   -> <<cp>>
      [] cp >= 128 /\ cp < 2048 -> <<192 + (cp \div 64), 128 + (cp % 64)>>
      [] cp >= 2048 /\ cp < 65536 ->
            <<224 + (cp \div 4096), 128 + ((cp \div 64) % 64), 128 + (cp % 64)>>
      [] OTHER ->
            <<240 + (cp \div 262144), 128 + ((cp \div 4096) % 64),
              128 + ((cp \div 64) % 64), 128 + (cp % 64)>>

IsHighSurrogate(c) == c >= 55296 /\ c <= 56319
IsLowSurrogate(c)  == c >= 56320 /\ c <= 57343

\* The bytes that the code unit at position k contributes: a surrogate
\* pair encodes as one code point, at its high surrogate; a lone surrogate
\* encodes as U+FFFD.
Utf8At(str, k) ==
    IF IsHighSurrogate(str[k])
    THEN IF k < Len(str) /\ IsLowSurrogate(str[k + 1])
         THEN Utf8OfCodePoint(65536 + (str[k] - 55296) * 1024 + (str[k + 1] - 56320))
         ELSE Utf8OfCodePoint(65533)
    ELSE IF IsLowSurrogate(str[k])
    THEN IF k > 1 /\ IsHighSurrogate(str[k - 1]) THEN <<>> ELSE Utf8OfCodePoint(65533)
    ELSE Utf8OfCodePoint(str[k])

\* new TextEncoder().encode(str)
TextEncoderEncode(str) == Concat([k \in 1..Len(str) |-> Utf8At(str, k)])

\* The sum of bytes[k] * k, modulo 2^16.
WeightedSum(bytes) ==
    LET loop[k \in 1..(Len(bytes) + 1), sum \in Nat] ==
            IF k > Len(bytes) THEN sum
            ELSE loop[k + 1, (sum + bytes[k] * k) % Limb]
    IN  loop[1, 0]

\* crypto.subtle.digest('SHA-256', bytes) when it succeeds: the host's
\* primitive, of which the source uses only that it is a function from the
\* bytes to a buffer of 32 bytes.  It stands here as one such function.
SubtleDigest(bytes) ==
    LET w == WeightedSum(bytes)
    IN  [k \in 1..32 |-> (w * k + Len(bytes) + (w \div 256) * (k % 5)) % 256]

ByteToHex_NoPad(b) == HexOfNat(b)

\* b.toString(16).padStart(2, '0')
ByteToHex(b) ==
    PadStart(IF b = 0 THEN Str(<<"0">>) ELSE HexOfNat(b), 2, Code("0"))

\* Array.from(new Uint8Array(buffer)).map(...).join('')
BufferToHex(buffer) == Concat([k \in 1..Len(buffer) |-> ByteToHex(buffer[k])])

WarnFailed      == "[Fingerprint] crypto.subtle failed, using fallback hash"
WarnUnavailable == "[Fingerprint] crypto.subtle not available, using fallback hash"
WarnPlatform    == "[Fingerprint] Invalid platform value, defaulting to \"admin\""

----------------------------------------------------------------------------
(* generateHash, up to its first suspension *)

Admin == StringV(Str(<<"a", "d", "m", "i", "n">>))
Shell == StringV(Str(<<"s", "h", "e", "l", "l">>))
Bar   == Str(<<"|">>)

DefaultParam_None(v, d) == v

\* A parameter default: it applies to undefined (a missing property reads
\* as undefined) and to nothing else.
DefaultParam(v, d) == IF v.t = "undefined" THEN d ELSE v

InvalidPlatform(platform) ==
    ~StrictEquals(platform, Admin) /\ ~StrictEquals(platform, Shell)

ValidatePlatform_Keep(platform) == platform

\* if (platform !== 'admin' && platform !== 'shell') platform = 'admin'
ValidatePlatform(platform) ==
    IF InvalidPlatform(platform) THEN Admin ELSE platform

FingerprintFields_Swapped(f, platform) ==
    <<f.devicePlatform, f.osVersion, f.screenHeight, f.screenWidth,
      f.pixelRatio, f.timezone, f.language, platform>>

\* The array that is joined.
FingerprintFields(f, platform) ==
    <<f.devicePlatform, f.osVersion, f.screenWidth, f.screenHeight,
      f.pixelRatio, f.timezone, f.language, platform>>

\* sha256 up to its return or its await.  subtle: whether window.crypto and
\* window.crypto.subtle are there; sync: whether the try block throws before
\* a promise is awaited ("throws") or awaits the primitive ("awaits").  path
\* records how the digest came about: "absent" (no primitive), "failed" (it
\* threw or rejected), "resolved" (it succeeded), "none" (not yet).
sha256Enter(str, subtle, sync) ==
    IF subtle
    THEN IF sync = "throws"
         THEN [pc |-> "await_sha256", path |-> "failed",
               hash |-> simpleHash(str), warn |-> <<WarnFailed>>]
         ELSE [pc |-> "await_digest", path |-> "none",
               hash |-> <<>>, warn |-> <<>>]
    ELSE [pc |-> "await_sha256", path |-> "absent",
          hash |-> simpleHash(str), warn |-> <<WarnUnavailable>>]

\* generateHash(params), run to its first suspension or to its rejection.
\* Destructuring undefined or null throws, and so does joining a symbol; an
\* async function turns either into a rejected promise.
generateHashEnter(params, subtle, sync) ==
    IF params.t \in {"undefined", "null"}
    THEN [pc |-> "rejected", platform |-> Undefined, str |-> <<>>,
          path |-> "none", hash |-> <<>>, warn |-> <<>>]
    ELSE
      LET given    == DefaultParam(params.f.platform, Admin)
          platform == ValidatePlatform(given)
          pwarn    == IF InvalidPlatform(given) THEN <<WarnPlatform>> ELSE <<>>
          joined   == ArrayJoin(FingerprintFields(params.f, platform), Bar)
          sha      == sha256Enter(joined.s, subtle, sync)
      IN  IF joined.threw
          THEN [pc |-> "rejected", platform |-> platform, str |-> <<>>,
                path |-> "none", hash |-> <<>>, warn |-> pwarn]
          ELSE [pc |-> sha.pc, platform |-> platform, str |-> joined.s,
                path |-> sha.path, hash |-> sha.hash, warn |-> pwarn \o sha.warn]

\* console.warn by call c, once per message of msgs.
Warned(c, msgs) == console \o [k \in 1..Len(msgs) |-> [by |-> c, msg |-> msgs[k]]]

----------------------------------------------------------------------------
(* The attribute collector *)

\* String.prototype.toLowerCase on the user agents modelled, which are ASCII.
ToLowerCase(str) ==
    [k \in 1..Len(str) |->
        IF str[k] >= Code("A") /\ str[k] <= Code("Z") THEN str[k] + 32 ELSE str[k]]

\* Whether pat occurs in str at position k (1-based).
OccursAt(str, pat, k) ==
    /\ k + Len(pat) - 1 <= Len(str)
    /\ \A j \in 1..Len(pat) : str[k + j - 1] = pat[j]

\* /pat/.test(str) for a literal pattern.
Test(pat, str) == \E k \in 1..Len(str) : OccursAt(str, pat, k)

LitAndroid   == Str(<<"a", "n", "d", "r", "o", "i", "d">>)
LitIphone    == Str(<<"i", "p", "h", "o", "n", "e">>)
LitIpad      == Str(<<"i", "p", "a", "d">>)
LitIpod      == Str(<<"i", "p", "o", "d">>)
LitMacintosh == Str(<<"m", "a", "c", "i", "n", "t", "o", "s", "h">>)
LitMacOs     == Str(<<"m", "a", "c", " ", "o", "s">>)
LitWindows   == Str(<<"w", "i", "n", "d", "o", "w", "s">>)
LitLinux     == Str(<<"l", "i", "n", "u", "x">>)

TagAndroid == Str(<<"a", "n", "d", "r", "o", "i", "d">>)
TagIos     == Str(<<"i", "o", "s">>)
TagMacos   == Str(<<"m", "a", "c", "o", "s">>)
TagWindows == Str(<<"w", "i", "n", "d", "o", "w", "s">>)
TagLinux   == Str(<<"l", "i", "n", "u", "x">>)
TagWeb     == Str(<<"w", "e", "b">>)

getPlatformType_IosFirst(userAgent) ==
    LET ua == ToLowerCase(userAgent)
    IN  IF Test(LitIphone, ua) \/ Test(LitIpad, ua) \/ Test(LitIpod, ua)
        THEN TagIos
        ELSE IF Test(LitAndroid, ua) THEN TagAndroid
        ELSE IF Test(LitMacintosh, ua) \/ Test(LitMacOs, ua) THEN TagMacos
        ELSE IF Test(LitWindows, ua) THEN TagWindows
        ELSE IF Test(LitLinux, ua) THEN TagLinux
        ELSE TagWeb

getPlatformType(userAgent) ==
    LET ua == ToLowerCase(userAgent)
    IN  IF Test(LitAndroid, ua) THEN TagAndroid
        ELSE IF Test(LitIphone, ua) \/ Test(LitIpad, ua) \/ Test(LitIpod, ua)
        THEN TagIos
        ELSE IF Test(LitMacintosh, ua) \/ Test(LitMacOs, ua) THEN TagMacos
        ELSE IF Test(LitWindows, ua) THEN TagWindows
        ELSE IF Test(LitLinux, ua) THEN TagLinux
        ELSE TagWeb

\* \s
IsSpace(c) ==
    \/ c \in {9, 10, 11, 12, 13, 32, 160, 5760, 8232, 8233, 8239, 8287, 12288, 65279}
    \/ (c >= 8192 /\ c <= 8202)

\* \d
IsDigit(c) == c >= Code("0") /\ c <= Code("9")

\* The regular expression  lit \s ([\d sep]+)  against str, as
\* String.prototype.match applies it: the leftmost position where it
\* matches, and there the longest run of digits and separators.
Match(str, lit, sep) ==
    LET InClass(c) == IsDigit(c) \/ c = sep
        MatchesAt(k) ==
            /\ OccursAt(str, lit, k)
            /\ k + Len(lit) + 1 <= Len(str)
            /\ IsSpace(str[k + Len(lit)])
            /\ InClass(str[k + Len(lit) + 1])
        starts == {k \in 1..Len(str) : MatchesAt(k)}
        first  == CHOOSE k \in starts : \A m \in starts : k <= m
        from   == first + Len(lit) + 1
        to     == CHOOSE e \in from..Len(str) :
                      /\ \A j \in from..e : InClass(str[j])
                      /\ e = Len(str) \/ ~InClass(str[e + 1])
    IN  IF starts = {} THEN [found |-> FALSE, group |-> <<>>]
        ELSE [found |-> TRUE, group |-> [j \in 1..(to - from + 1) |-> str[from + j - 1]]]

\* .replace(/_/g, '.')
UnderscoresToDots(str) ==
    [k \in 1..Len(str) |-> IF str[k] = Code("_") THEN Code(".") ELSE str[k]]

getOSVersion(ua) ==
    LET android == Match(ua, Str(<<"A", "n", "d", "r", "o", "i", "d">>), Code("."))
        os      == Match(ua, Str(<<"O", "S">>), Code("_"))
        windows == Match(ua, Str(<<"W", "i", "n", "d", "o", "w", "s", " ", "N", "T">>), Code("."))
        mac     == Match(ua, Str(<<"M", "a", "c", " ", "O", "S", " ", "X">>), Code("_"))
    IN  IF android.found THEN android.group
        ELSE IF os.found THEN UnderscoresToDots(os.group)
        ELSE IF windows.found THEN windows.group
        ELSE IF mac.found THEN UnderscoresToDots(mac.group)
        ELSE Str(<<"u", "n", "k", "n", "o", "w", "n">>)

\* collectAttributes(): the record read off the host.
collectAttributes(h) ==
    [devicePlatform |-> StringV(getPlatformType(h.userAgent)),
     osVersion      |-> StringV(getOSVersion(h.userAgent)),
     screenWidth    |-> h.width,
     screenHeight   |-> h.height,
     pixelRatio     |-> IF Truthy(h.devicePixelRatio) THEN h.devicePixelRatio ELSE IntV(1),
     timezone       |-> h.timeZone,
     language       |-> h.language]

\* { ...attributes, platform }
WithPlatform(attributes, platform) ==
    [devicePlatform |-> attributes.devicePlatform,
     osVersion      |-> attributes.osVersion,
     screenWidth    |-> attributes.screenWidth,
     screenHeight   |-> attributes.screenHeight,
     pixelRatio     |-> attributes.pixelRatio,
     timezone       |-> attributes.timezone,
     language       |-> attributes.language,
     platform       |-> platform]

----------------------------------------------------------------------------
(* Inputs and bounds *)

\* Longest input of the fallback digest drawn over HashAlphabet.
MaxHashLen == 4

\* Most tokens in a user agent handed to the classifier.
MaxTokens == 2

\* Screen widths handed to generateHash range over 1440 .. 1440 + MaxWidthStep.
MaxWidthStep == 1

\* Device pixel ratios of the host range over 1 .. MaxRatio, or are missing.
MaxRatio == 2

Calls == {1, 2}

HashAlphabet == {Code("a"), Code("|"), 65535}

\* "xfjfxtf": its first rolling hash is exactly -2^31.
MinInt32Input == Str(<<"x", "f", "j", "f", "x", "t", "f">>)

ExampleString ==
    Str(<<"m", "a", "c", "o", "s", "|", "1", "0", ".", "1", "5", ".", "7", "|",
          "1", "4", "4", "0", "|", "9", "0", "0", "|", "2", "|",
          "A", "m", "e", "r", "i", "c", "a", "/", "N", "e", "w", "_", "Y", "o", "r", "k", "|",
          "e", "n", "-", "U", "S", "|", "a", "d", "m", "i", "n">>)

HashInputs ==
    UNION {[1..n -> HashAlphabet] : n \in 0..MaxHashLen}
        \cup {MinInt32Input, ExampleString}

Tokens ==
    <<Str(<<"A", "n", "d", "r", "o", "i", "d">>),
      Str(<<"i", "P", "h", "o", "n", "e">>),
      Str(<<"i", "P", "a", "d">>),
      Str(<<"i", "P", "o", "d">>),
      Str(<<"M", "a", "c", "i", "n", "t", "o", "s", "h">>),
      Str(<<"M", "a", "c", " ", "O", "S">>),
      Str(<<"W", "i", "n", "d", "o", "w", "s">>),
      Str(<<"L", "i", "n", "u", "x">>),
      Str(<<"l", "i", "n", "u", "x">>),
      Str(<<"M", "o", "z", "i", "l", "l", "a">>)>>

\* The tokens picked, separated by single spaces.
Spaced(picks) == ArrayJoin([k \in 1..Len(picks) |-> StringV(Tokens[picks[k]])], Str(<<" ">>)).s

TokenAgents ==
    {Spaced(picks) : picks \in UNION {[1..n -> 1..Len(Tokens)] : n \in 0..MaxTokens}}

Example ==
    [devicePlatform |-> StringV(Str(<<"m", "a", "c", "o", "s">>)),
     osVersion      |-> StringV(Str(<<"1", "0", ".", "1", "5", ".", "7">>)),
     screenWidth    |-> IntV(1440),
     screenHeight   |-> IntV(900),
     pixelRatio     |-> IntV(2),
     timezone       |-> StringV(Str(<<"A", "m", "e", "r", "i", "c", "a", "/", "N", "e", "w", "_", "Y", "o", "r", "k">>)),
     language       |-> StringV(Str(<<"e", "n", "-", "U", "S">>)),
     platform       |-> Admin]

FieldNames == {"devicePlatform", "osVersion", "screenWidth", "screenHeight",
               "pixelRatio", "timezone", "language", "platform"}

Bogus == StringV(Str(<<"b", "o", "g", "u", "s">>))

\* The values each field takes besides the example's.
Alternatives(k) ==
    CASE k = "devicePlatform" -> {StringV(TagIos), Null, Undefined}
      [] k = "osVersion"      -> {StringV(Str(<<"1", "0", ".", "1", "5">>))}
      [] k = "screenWidth"    -> {IntV(1440 + d) : d \in 1..MaxWidthStep}
                                    \cup {StringV(Str(<<"1", "4", "4", "0">>))}
      [] k = "screenHeight"   -> {IntV(0 - 900)}
      [] k = "pixelRatio"     -> {NumberV(6), NumberV(11)}
      [] k = "timezone"       -> {StringV(Str(<<"Z", "u">>) \o <<252>> \o Str(<<"r", "i", "c", "h">>)),
                                  SymbolV}
      [] k = "language"       -> {StringV(<<>>), Null, StringV(<<55357>>)}
      [] k = "platform"       -> {Shell, Bogus, Null, Undefined, IntV(1),
                                  StringV(Str(<<"A", "d", "m", "i", "n">>))}

\* The example, the records that differ from it in one field, and two that
\* differ from it in the device platform and in the platform.
Records ==
    {Example}
        \cup {[Example EXCEPT ![k] = v] : <<k, v>> \in
                 UNION {{<<k, v>> : v \in Alternatives(k)} : k \in FieldNames}}
        \cup {[Example EXCEPT !.devicePlatform = StringV(TagIos), !.platform = v] :
                 v \in {Bogus, Shell}}

Blank == [k \in FieldNames |-> Undefined]

\* What generateHash is handed: nothing, null, or an object.
NoParams   == [t |-> "undefined", f |-> Blank]
NullParams == [t |-> "null", f |-> Blank]
Object(f)  == [t |-> "object", f |-> f]

Params == {NoParams, NullParams} \cup {Object(f) : f \in Records}

PlatformArgs == {Undefined, Admin, Shell, Bogus, SymbolV}

MacUA ==
    Str(<<"M", "a", "c", "i", "n", "t", "o", "s", "h", ";", " ", "I", "n", "t", "e", "l", " ",
          "M", "a", "c", " ", "O", "S", " ", "X", " ", "1", "0", "_", "1", "5", "_", "7">>)
PhoneUA ==
    Str(<<"i", "P", "h", "o", "n", "e", ";", " ", "C", "P", "U", " ", "i", "P", "h", "o", "n", "e", " ",
          "O", "S", " ", "1", "4", "_", "2", " ", "l", "i", "k", "e", " ", "M", "a", "c", " ", "O", "S", " ", "X">>)
AndroidUA ==
    Str(<<"L", "i", "n", "u", "x", ";", " ", "A", "n", "d", "r", "o", "i", "d", " ", "1", "0", ";", " ", "K">>)
WindowsUA ==
    Str(<<"W", "i", "n", "d", "o", "w", "s", " ", "N", "T", " ", "1", "0", ".", "0", ";", " ", "W", "i", "n", "6", "4">>)
CurlUA == Str(<<"c", "u", "r", "l", "/", "8">>)

UserAgents == TokenAgents \cup {MacUA, PhoneUA, AndroidUA, WindowsUA, CurlUA}

PixelRatios == {Undefined} \cup {IntV(n) : n \in 1..MaxRatio}

\* A host: navigator.userAgent, screen.width and .height,
\* window.devicePixelRatio, the resolved time zone, navigator.language, and
\* whether window.crypto and window.crypto.subtle are there.
HostOf(ua, ratio, subtle) ==
    [userAgent |-> ua, width |-> IntV(1440), height |-> IntV(900),
     devicePixelRatio |-> ratio, timeZone |-> Example.timezone,
     language |-> Example.language, subtle |-> subtle]

Hosts ==
    {HostOf(MacUA, IntV(1), subtle) : subtle \in BOOLEAN}

----------------------------------------------------------------------------
(* State *)

NoOutput == [done |-> FALSE, val |-> <<>>]

NoHost == HostOf(<<>>, Undefined, FALSE)

NoObject == [id |-> 0, f |-> Blank]

NoResult == [id |-> 0, attributes |-> NoObject, hash |-> <<>>]

\* A call not made yet.
NoCall ==
    [fn |-> "none", pc |-> "idle", params |-> NoParams, arg |-> Undefined,
     attributes |-> NoObject, platform |-> Undefined, str |-> <<>>,
     path |-> "none", hash |-> <<>>, inner |-> "pending", result |-> NoResult]

NoCalls == [c \in Calls |-> NoCall]

\* Calls are numbered in the order they are made.
NextToCall(c) == calls[c].pc = "idle" /\ \A d \in Calls : d < c => calls[d].pc # "idle"

----------------------------------------------------------------------------
(* The pure functions, applied to an input *)

InitHash ==
    /\ input \in HashInputs
    /\ output = NoOutput
    /\ host = NoHost /\ calls = NoCalls /\ console = <<>> /\ heap = 0

ApplySimpleHash ==
    /\ ~output.done
    /\ output' = [done |-> TRUE, val |-> simpleHash(input)]
    /\ UNCHANGED <<input, host, calls, console, heap>>

NextHash == ApplySimpleHash

SpecHash == InitHash /\ [][NextHash]_vars

InitUA ==
    /\ input \in UserAgents
    /\ output = NoOutput
    /\ host = NoHost /\ calls = NoCalls /\ console = <<>> /\ heap = 0

\* The two attributes that collectAttributes derives from the user agent.
ApplyClassify ==
    /\ ~output.done
    /\ output' = [done |-> TRUE,
                  val |-> [devicePlatform |-> getPlatformType(input),
                           osVersion |-> getOSVersion(input)]]
    /\ UNCHANGED <<input, host, calls, console, heap>>

NextUA == ApplyClassify

SpecUA == InitUA /\ [][NextUA]_vars

----------------------------------------------------------------------------
(* generateHash, called directly *)

InitGen ==
    /\ input = <<>>
    /\ output = NoOutput
    /\ host \in {HostOf(MacUA, NumberV(8), subtle) : subtle \in BOOLEAN}
    /\ calls = NoCalls
    /\ console = <<>>
    /\ heap = 0

\* generateHash(params), to its first suspension.
CallGenerateHash(c, params, sync) ==
    /\ NextToCall(c)
    /\ LET r == generateHashEnter(params, host.subtle, sync)
       IN  /\ calls' = [calls EXCEPT ![c] =
                  [@ EXCEPT !.fn = "generateHash", !.pc = r.pc, !.params = params,
                            !.platform = r.platform, !.str = r.str,
                            !.path = r.path, !.hash = r.hash]]
           /\ console' = Warned(c, r.warn)
    /\ UNCHANGED <<input, output, host, heap>>

\* The primitive's promise is fulfilled with a buffer: sha256 renders it.
DigestResolve(c) ==
    /\ calls[c].pc = "await_digest"
    /\ calls' = [calls EXCEPT ![c] =
           [@ EXCEPT !.pc = "await_sha256", !.path = "resolved",
                     !.hash = BufferToHex(SubtleDigest(TextEncoderEncode(calls[c].str)))]]
    /\ UNCHANGED <<input, output, host, console, heap>>

\* The primitive's promise is rejected: sha256's catch block.
DigestReject(c) ==
    /\ calls[c].pc = "await_digest"
    /\ calls' = [calls EXCEPT ![c] =
           [@ EXCEPT !.pc = "await_sha256", !.path = "failed",
                     !.hash = simpleHash(calls[c].str)]]
    /\ console' = Warned(c, <<WarnFailed>>)
    /\ UNCHANGED <<input, output, host, heap>>

\* generateHash resumes after  await sha256(...)  and returns the digest.
ResumeGenerateHash(c) ==
    /\ calls[c].pc = "await_sha256"
    /\ calls' = [calls EXCEPT ![c] =
           IF @.fn = "generateHash"
           THEN [@ EXCEPT !.pc = "fulfilled"]
           ELSE [@ EXCEPT !.pc = "await_generateHash", !.inner = "fulfilled"]]
    /\ UNCHANGED <<input, output, host, console, heap>>

NextGen ==
    \E c \in Calls :
        \/ \E params \in Params, sync \in {"throws", "awaits"} :
               CallGenerateHash(c, params, sync)
        \/ DigestResolve(c)
        \/ DigestReject(c)
        \/ ResumeGenerateHash(c)

SpecGen == InitGen /\ [][NextGen]_vars

----------------------------------------------------------------------------
(* getFingerprint *)

Init ==
    /\ input = <<>>
    /\ output = NoOutput
    /\ host \in Hosts
    /\ calls = NoCalls
    /\ console = <<>>
    /\ heap = 0

\* The window moves to a screen of another pixel ratio.
HostChange(ratio) ==
    /\ ratio # host.devicePixelRatio
    /\ host' = [host EXCEPT !.devicePixelRatio = ratio]
    /\ UNCHANGED <<input, output, calls, console, heap>>

\* Where an object literal is evaluated: the n-th object allocated from now.
NewObject_Shared(n) == n

NewObject(n) == heap + n

\* getFingerprint(platform), to its suspension at  await generateHash(...).
CallGetFingerprint(c, arg, sync) ==
    /\ NextToCall(c)
    /\ LET platform   == DefaultParam(arg, Admin)
           attributes == [id |-> NewObject(1), f |-> collectAttributes(host)]
           params     == Object(WithPlatform(attributes.f, platform))
           r          == generateHashEnter(params, host.subtle, sync)
       IN  /\ calls' = [calls EXCEPT ![c] =
                  [@ EXCEPT !.fn = "getFingerprint", !.arg = arg,
                            !.attributes = [id |-> attributes.id,
                                            f |-> WithPlatform(attributes.f, Undefined)],
                            !.params = params,
                            !.pc = IF r.pc = "rejected" THEN "await_generateHash" ELSE r.pc,
                            !.inner = IF r.pc = "rejected" THEN "rejected" ELSE "pending",
                            !.platform = r.platform, !.str = r.str,
                            !.path = r.path, !.hash = r.hash]]
           /\ console' = Warned(c, r.warn)
           /\ heap' = heap + 2
    /\ UNCHANGED <<input, output, host>>

\* getFingerprint resumes after  await generateHash(...): it returns a new
\* record, or is rejected as generateHash was.
ResumeGetFingerprint(c) ==
    /\ calls[c].pc = "await_generateHash"
    /\ IF calls[c].inner = "rejected"
       THEN /\ calls' = [calls EXCEPT ![c] = [@ EXCEPT !.pc = "rejected"]]
            /\ heap' = heap
       ELSE /\ calls' = [calls EXCEPT ![c] =
                [@ EXCEPT !.pc = "fulfilled",
                          !.result =
                              [id |-> NewObject(2),
                               attributes |-> [id |-> NewObject(1),
                                               f |-> WithPlatform(calls[c].attributes.f,
                                                   DefaultParam(calls[c].arg, Admin))],
                               hash |-> calls[c].hash]]]
            /\ heap' = heap + 2
    /\ UNCHANGED <<input, output, host, console>>

Next ==
    \/ \E ratio \in PixelRatios : HostChange(ratio)
    \/ \E c \in Calls :
        \/ \E arg \in PlatformArgs, sync \in {"throws", "awaits"} :
               CallGetFingerprint(c, arg, sync)
        \/ DigestResolve(c)
        \/ DigestReject(c)
        \/ ResumeGenerateHash(c)
        \/ ResumeGetFingerprint(c)

Spec == Init /\ [][Next]_vars

----------------------------------------------------------------------------
(* Properties *)

Started(c)  == calls[c].pc # "idle"
HasRecord(c) == calls[c].params.t = "object"

\* sha256 has returned for call c.
Digested(c) == calls[c].path # "none"

\* The digest path sha256 took for call c.
Fallback(c) == calls[c].path \in {"absent", "failed"}
Secure(c)   == calls[c].path = "resolved"
SamePath(c, d) == Digested(c) /\ Digested(d) /\ (Fallback(c) <=> Fallback(d))

\* The warnings of call c among msgs.
WarningsOf(c, msgs) ==
    Cardinality({k \in 1..Len(console) : console[k].by = c /\ console[k].msg \in msgs})

\* The platform call c was handed: undefined when the record has none, or
\* when there is no record.
Supplied(c) == calls[c].params.f.platform

Rendered(v) == JoinElement(v).s

\* C1: generateHash never fails: whatever it is handed and whatever the
\* primitive does, its promise is never rejected, and is fulfilled with a
\* digest string.
C1_NeverRejected ==
    \A c \in Calls :
        calls[c].fn = "generateHash" =>
            /\ calls[c].pc # "rejected"
            /\ calls[c].pc = "fulfilled" =>
                   Len(calls[c].hash) \in {32, 64} /\ IsHexString(calls[c].hash)

\* C2: when sha256 returns: if the primitive was absent or its invocation
\* threw or rejected, the result is simpleHash of the same string and one
\* warning was logged; if it succeeded, the result is the 64 lowercase hex
\* characters of its 32 bytes, two per byte in byte order, no warning was
\* logged and the result is not the fallback digest.
C2_DigestPathSelection ==
    \A c \in Calls :
        calls[c].pc = "await_sha256" =>
            LET k      == calls[c]
                warned == WarningsOf(c, {WarnFailed, WarnUnavailable})
                buffer == SubtleDigest(TextEncoderEncode(k.str))
            IN  /\ (k.path = "absent") <=> ~host.subtle
                /\ Fallback(c) => k.hash = simpleHash(k.str) /\ warned = 1
                /\ Secure(c) =>
                       /\ Len(k.hash) = 64
                       /\ IsHexString(k.hash)
                       /\ \A b \in 1..32 :
                              /\ k.hash[2 * b - 1] = HexDigits[(buffer[b] \div 16) + 1]
                              /\ k.hash[2 * b] = HexDigits[(buffer[b] % 16) + 1]
                       /\ warned = 0
                       /\ k.hash # simpleHash(k.str)

C2_Witness ==
    \E c, d \in Calls :
        /\ calls[c].pc = "await_sha256" /\ Secure(c)
        /\ \E b \in 1..32 : SubtleDigest(TextEncoderEncode(calls[c].str))[b] < 16
        /\ calls[d].pc = "await_sha256" /\ calls[d].path = "failed"
        /\ WarningsOf(d, {WarnFailed}) = 1

SameButPlatform(c, d) ==
    \A k \in FieldNames \ {"platform"} : calls[c].params.f[k] = calls[d].params.f[k]

\* C3: a record with a platform that is neither "admin" nor "shell" is
\* hashed as the same record with platform "admin" is: the same canonical
\* string, and the same digest under the same digest path; and "shell" is
\* left as "shell".
C3_PlatformCoercion ==
    /\ \A c, d \in Calls :
           /\ HasRecord(c) /\ HasRecord(d) /\ Started(c) /\ Started(d)
           /\ SameButPlatform(c, d)
           /\ Supplied(c) = Admin
           /\ Supplied(d) \notin {Admin, Shell}
           => /\ calls[c].platform = calls[d].platform
              /\ calls[c].str = calls[d].str
              /\ SamePath(c, d) => calls[c].hash = calls[d].hash
    /\ \A c \in Calls :
           HasRecord(c) /\ Started(c) /\ Supplied(c) = Shell
           => /\ calls[c].platform = Shell
              /\ calls[c].pc # "rejected" =>
                     SubSeq(calls[c].str, Len(calls[c].str) - 5, Len(calls[c].str))
                         = Bar \o Shell.s

C3_Witness ==
    \E c, d \in Calls :
        /\ Supplied(c) = Admin /\ Supplied(d) = Bogus /\ SameButPlatform(c, d)
        /\ calls[c].pc = "fulfilled" /\ calls[d].pc = "fulfilled"
        /\ WarningsOf(d, {WarnPlatform}) = 1
        /\ SamePath(c, d) /\ calls[c].hash = calls[d].hash

\* C4, as claimed: a call handed a record warns of an invalid platform if
\* and only if the record's platform is anything but "admin" or "shell", a
\* missing platform included.
C4_WarnsOnAnyOther ==
    \A c \in Calls :
        HasRecord(c) /\ Started(c) =>
            (WarningsOf(c, {WarnPlatform}) > 0 <=> Supplied(c) \notin {Admin, Shell})

\* C4, amended: a call warns of an invalid platform, once, if and only if it
\* is handed a platform that is not undefined and is neither "admin" nor
\* "shell"; a missing (or undefined) platform defaults to "admin" silently.
C4_WarnsOnGivenOther ==
    \A c \in Calls :
        Started(c) =>
            WarningsOf(c, {WarnPlatform}) =
                IF Supplied(c) \notin {Undefined, Admin, Shell} THEN 1 ELSE 0

C4_Witness ==
    \E c, d \in Calls :
        /\ HasRecord(c) /\ Started(c) /\ Supplied(c) = Undefined
        /\ WarningsOf(c, {WarnPlatform}) = 0 /\ calls[c].platform = Admin
        /\ HasRecord(d) /\ Started(d) /\ Supplied(d) = Null
        /\ WarningsOf(d, {WarnPlatform}) = 1

\* C5: simpleHash returns exactly 32 characters, each in [0-9a-f]: each of
\* the four parts is exactly 8 hex digits, with no sign and no ninth digit.
C5_FallbackShape ==
    output.done =>
        /\ Len(output.val) = 32
        /\ IsHexString(output.val)
        /\ \A h \in {Pass1(input), Pass2(input), Pass3(input), Pass4(input)} :
               LET digits == ToString16(MathAbs(ToNumber(h)))
               IN  /\ Len(digits) <= 8
                   /\ IsHexString(digits)
                   /\ Len(HashPart(h)) = 8

\* The input whose first rolling hash is -2^31: its part reads 80000000.
C5_Witness ==
    /\ output.done
    /\ input = MinInt32Input
    /\ SubSeq(output.val, 1, 8) = Str(<<"8", "0", "0", "0", "0", "0", "0", "0">>)

DifferInOneField(c, d) ==
    Cardinality({k \in FieldNames : calls[c].params.f[k] # calls[d].params.f[k]}) = 1

Canonicalized(c) == HasRecord(c) /\ Started(c) /\ calls[c].pc # "rejected"

\* C7, as claimed: two records that differ in the value of exactly one field
\* have different canonical strings.
C7_AnySingleFieldChange ==
    \A c, d \in Calls :
        Canonicalized(c) /\ Canonicalized(d) /\ DifferInOneField(c, d)
            => calls[c].str # calls[d].str

\* A record whose fields have their documented types: strings, numbers for
\* the screen size and the pixel ratio, and "admin" or "shell".
Typed(f) ==
    /\ \A k \in {"devicePlatform", "osVersion", "timezone", "language"} : f[k].t = "string"
    /\ \A k \in {"screenWidth", "screenHeight", "pixelRatio"} : f[k].t = "number"
    /\ f.platform \in {Admin, Shell}

\* C7, amended: two records of the documented types that differ in the value
\* of exactly one field have different canonical strings.
C7_TypedSingleFieldChange ==
    \A c, d \in Calls :
        /\ Canonicalized(c) /\ Canonicalized(d) /\ DifferInOneField(c, d)
        /\ Typed(calls[c].params.f) /\ Typed(calls[d].params.f)
        => calls[c].str # calls[d].str

C7_Witness ==
    \E c, d \in Calls :
        /\ Canonicalized(c) /\ Canonicalized(d) /\ DifferInOneField(c, d)
        /\ Typed(calls[c].params.f) /\ Typed(calls[d].params.f)
        /\ calls[c].params.f.pixelRatio # calls[d].params.f.pixelRatio
        /\ calls[c].str # calls[d].str

\* C8: getPlatformType returns the tag of the first of android,
\* iphone/ipad/ipod, macintosh/mac os, windows, linux that occurs in the
\* lower-cased user agent, and "web" when none does.
C8_ClassificationPrecedence ==
    output.done =>
        LET Has(pat) == Test(pat, ToLowerCase(input))
            ios      == Has(LitIphone) \/ Has(LitIpad) \/ Has(LitIpod)
            macos    == Has(LitMacintosh) \/ Has(LitMacOs)
            tag      == output.val.devicePlatform
        IN  /\ Has(LitAndroid) => tag = TagAndroid
            /\ ~Has(LitAndroid) /\ ios => tag = TagIos
            /\ ~Has(LitAndroid) /\ ~ios /\ macos => tag = TagMacos
            /\ ~Has(LitAndroid) /\ ~ios /\ ~macos /\ Has(LitWindows) => tag = TagWindows
            /\ ~Has(LitAndroid) /\ ~ios /\ ~macos /\ ~Has(LitWindows) /\ Has(LitLinux)
                   => tag = TagLinux
            /\ ~Has(LitAndroid) /\ ~ios /\ ~macos /\ ~Has(LitWindows) /\ ~Has(LitLinux)
                   => tag = TagWeb
            /\ tag \in {TagAndroid, TagIos, TagMacos, TagWindows, TagLinux, TagWeb}

\* "iPhone Android": both patterns occur, ios first in the string.
C8_Witness ==
    /\ output.done
    /\ input = Spaced(<<2, 1>>)
    /\ output.val.devicePlatform = TagAndroid

Returned(c) == calls[c].fn = "getFingerprint" /\ calls[c].pc = "fulfilled"

SameInputs(c, d) ==
    /\ calls[c].arg = calls[d].arg
    /\ calls[c].attributes.f = calls[d].attributes.f

Independent(c, d) ==
    /\ calls[c].result.id # calls[d].result.id
    /\ calls[c].result.attributes.id # calls[d].result.attributes.id
    /\ {calls[c].result.id, calls[c].result.attributes.id}
           \cap {calls[d].attributes.id, calls[d].result.id,
                 calls[d].result.attributes.id} = {}

====
